---- MODULE Spec2Model ----
(***************************************************************************)
(* Model of the Tideland gorest JWT claims container (jwt/claims.go) and   *)
(* of the REST verb dispatch (rest handleJob).                             *)
(*                                                                         *)
(* Go values stored in a Claims map are tagged records [kind, val]:        *)
(*   "nil"      the untyped nil interface (the absent-marker)              *)
(*   "string"   val is the sequence of the string's characters             *)
(*   "int", "int32", "int64"   val is the integer                          *)
(*   "float64"  val is <<num, den>> in lowest terms, den > 0               *)
(*   "bool"     val is a BOOLEAN                                           *)
(*   "strings"  []string: val is a sequence of character sequences         *)
(*   "slice"    []interface{}: val is a sequence of tagged values          *)
(* A Claims value is [isNil, m]: isNil is TRUE for the nil map, m is the   *)
(* map's content, a function from the keys present to tagged values.       *)
(* A time.Time is [zero, sec, nsec]: zero marks time.Time{}, whose epoch   *)
(* second lies outside the integers of the model.                          *)
(***************************************************************************)
EXTENDS Integers, Sequences, FiniteSets, TLC

VARIABLES
    c,        \* the Claims container under test
    pre,      \* the container as it was before the last operation
    op,       \* the last operation: [name, key, arg, ret]
    wire,     \* the bytes last produced by MarshalJSON, or NoBytes
    d,        \* the container the bytes were decoded into
    handler,  \* dispatch: [id, has]: the handler's ID and its method set
    job,      \* dispatch: [method, domain, resource] of the request
    calls,    \* dispatch: the handler methods invoked so far, in order
    result    \* dispatch: what handleJob returned, or NoResult

vars == <<c, pre, op, wire, d, handler, job, calls, result>>

claimVars == <<c, pre, op, wire, d>>
restVars == <<handler, job, calls, result>>

----------------------------------------------------------------------------
(* Bounds of the model *)

\* The largest number of entries a container of the model holds.
MaxLen == 2
\* The longest string drawn for a stored textual value.
MaxStrLen == 2
\* The longest sequence drawn for a stored "aud" value or SetAudience call.
MaxAud == 2

----------------------------------------------------------------------------
(* Go values *)

NilVal == [kind |-> "nil", val |-> 0]
StrVal(s) == [kind |-> "string", val |-> s]
IntVal(n) == [kind |-> "int", val |-> n]
Int32Val(n) == [kind |-> "int32", val |-> n]
Int64Val(n) == [kind |-> "int64", val |-> n]
FloatVal(n, dd) == [kind |-> "float64", val |-> <<n, dd>>]
BoolVal(b) == [kind |-> "bool", val |-> b]
StringsVal(ss) == [kind |-> "strings", val |-> ss]
SliceVal(vs) == [kind |-> "slice", val |-> vs]

\* time.Time{}
ZeroTime == [zero |-> TRUE, sec |-> 0, nsec |-> 0]
\* time.Unix(sec, 0)
TimeUnix(sec) == [zero |-> FALSE, sec |-> sec, nsec |-> 0]
\* t.Unix() as if it rounded to the nearest second
UnixRounded(t) == IF t.nsec >= 500000000 THEN t.sec + 1 ELSE t.sec

\* t.Unix(): the whole seconds since the epoch, the nanoseconds dropped.
\* Only times of the model's epoch range are passed (never time.Time{}).
Unix(t) == t.sec

----------------------------------------------------------------------------
(* The container: jwt/claims.go *)

\* var claims Claims
NilClaims == [isNil |-> TRUE, m |-> <<>>]
\* NewClaims
NewClaims == [isNil |-> FALSE, m |-> <<>>]

ClaimsLen(cl) == IF cl.isNil THEN 0 ELSE Cardinality(DOMAIN cl.m)

Get(cl, key) ==
    IF cl.isNil THEN [value |-> NilVal, ok |-> FALSE]
    ELSE IF key \in DOMAIN cl.m THEN [value |-> cl.m[key], ok |-> TRUE]
    ELSE [value |-> NilVal, ok |-> FALSE]

Contains(cl, key) == Get(cl, key).ok

\* a store that starts a new map holding the one entry
MapStoreFresh(m, key, value) == [k \in {key} |-> value]

\* c[key] = value on a non-nil map
MapStore(m, key, value) ==
    [k \in DOMAIN m \cup {key} |-> IF k = key THEN value ELSE m[k]]

\* delete(c, key): a no-op on a nil map and on a missing key
MapDelete(m, key) == [k \in DOMAIN m \ {key} |-> m[k]]

\* Set as if it allocated the map of an uninitialized container
SetAllocating(cl, key, value) ==
    [c |-> [isNil |-> FALSE, m |-> MapStore(cl.m, key, value)],
     ret |-> Get(cl, key).value]

\* Set: [c, ret]
Set(cl, key, value) ==
    IF cl.isNil THEN [c |-> cl, ret |-> NilVal]
    ELSE [c |-> [cl EXCEPT !.m = MapStore(cl.m, key, value)],
          ret |-> Get(cl, key).value]

\* Delete as if it read the old value after deleting
DeleteReadsLate(cl, key) ==
    [c |-> [cl EXCEPT !.m = MapDelete(cl.m, key)],
     ret |-> Get([cl EXCEPT !.m = MapDelete(cl.m, key)], key).value]

\* Delete: [c, ret]
Delete(cl, key) ==
    [c |-> [cl EXCEPT !.m = MapDelete(cl.m, key)], ret |-> Get(cl, key).value]

----------------------------------------------------------------------------
(* Text and numbers: strconv, fmt *)

Digits == <<"0", "1", "2", "3", "4", "5", "6", "7", "8", "9">>

IsDigit(ch) == \E i \in 1..10 : Digits[i] = ch

DigitVal(ch) == (CHOOSE i \in 1..10 : Digits[i] = ch) - 1

AllDigits(s) == \A i \in 1..Len(s) : IsDigit(s[i])

RECURSIVE DecimalValue(_)
\* the number a non-empty run of decimal digits denotes
DecimalValue(s) ==
    IF Len(s) = 0 THEN 0
    ELSE 10 * DecimalValue(SubSeq(s, 1, Len(s) - 1)) + DigitVal(s[Len(s)])

\* strconv.ParseInt(s, 10, 64): an optional sign, then one or more digits.
\* The strings of the model are far shorter than the 19 digits of the
\* int64 range, so the range error does not arise.
ParseInt(s) ==
    LET signed == Len(s) > 0 /\ s[1] \in {"+", "-"}
        body == IF signed THEN Tail(s) ELSE s
    IN IF Len(body) = 0 \/ ~AllDigits(body)
       THEN [i |-> 0, err |-> TRUE]
       ELSE [i |-> IF signed /\ s[1] = "-" THEN 0 - DecimalValue(body)
                   ELSE DecimalValue(body),
             err |-> FALSE]

RECURSIVE NatText(_)
NatText(n) ==
    IF n < 10 THEN <<Digits[n + 1]>>
    ELSE NatText(n \div 10) \o <<Digits[(n % 10) + 1]>>

\* the decimal text of an integer
Itoa(n) == IF n < 0 THEN <<"-">> \o NatText(0 - n) ELSE NatText(n)

\* int(v), int64(v) of a float64 <<num, den>>: truncation toward zero
FloatToInt(f) ==
    IF f[1] >= 0 THEN f[1] \div f[2] ELSE 0 - ((0 - f[1]) \div f[2])

\* the %v text of a float64 of the model (whole numbers and halves)
FormatFloat(f) ==
    IF f[2] = 1 THEN Itoa(f[1])
    ELSE (IF f[1] < 0 THEN <<"-">> ELSE <<>>)
         \o NatText(FloatToInt(<<IF f[1] < 0 THEN 0 - f[1] ELSE f[1], f[2]>>))
         \o <<".", "5">>

RECURSIVE JoinSpace(_)
JoinSpace(ss) ==
    IF Len(ss) = 0 THEN <<>>
    ELSE IF Len(ss) = 1 THEN ss[1]
    ELSE ss[1] \o <<" ">> \o JoinSpace(Tail(ss))

RECURSIVE Sprint(_)
\* fmt.Sprintf("%v", value)
Sprint(value) ==
    CASE value.kind = "nil" -> <<"<", "n", "i", "l", ">">>
      [] value.kind = "string" -> value.val
      [] value.kind \in {"int", "int32", "int64"} -> Itoa(value.val)
      [] value.kind = "float64" -> FormatFloat(value.val)
      [] value.kind = "bool" ->
            IF value.val THEN <<"t", "r", "u", "e">>
            ELSE <<"f", "a", "l", "s", "e">>
      [] value.kind = "strings" -> <<"[">> \o JoinSpace(value.val) \o <<"]">>
      [] value.kind = "slice" ->
            <<"[">>
            \o JoinSpace([i \in 1..Len(value.val) |-> Sprint(value.val[i])])
            \o <<"]">>

\* The shortest RFC 3339 timestamp, "2006-01-02T15:04:05Z", has 20 characters.
MinRFC3339Len == 20

\* time.Parse(time.RFC3339, s). Every string shorter than the shortest
\* timestamp is rejected; the strings of the model are all shorter, and the
\* parse of a well-formed timestamp is not modelled.
ParseRFC3339(s) ==
    IF Len(s) < MinRFC3339Len THEN [t |-> ZeroTime, err |-> TRUE]
    ELSE [t |-> CHOOSE t \in {} : TRUE, err |-> FALSE]

----------------------------------------------------------------------------
(* Type-coercive getters *)

GetString(cl, key) ==
    LET g == Get(cl, key)
    IN IF ~g.ok THEN [str |-> <<>>, ok |-> FALSE]
       ELSE IF g.value.kind = "string" THEN [str |-> g.value.val, ok |-> TRUE]
       ELSE [str |-> Sprint(g.value), ok |-> TRUE]

GetInt(cl, key) ==
    LET g == Get(cl, key)
    IN IF ~g.ok THEN [i |-> 0, ok |-> FALSE]
       ELSE CASE g.value.kind = "int" -> [i |-> g.value.val, ok |-> TRUE]
              [] g.value.kind = "float64" ->
                    [i |-> FloatToInt(g.value.val), ok |-> TRUE]
              [] g.value.kind = "string" ->
                    IF ~ParseInt(g.value.val).err
                    THEN [i |-> ParseInt(g.value.val).i, ok |-> TRUE]
                    ELSE [i |-> 0, ok |-> FALSE]
              [] OTHER -> [i |-> 0, ok |-> FALSE]

GetTime(cl, key) ==
    LET g == Get(cl, key)
    IN IF ~g.ok THEN [t |-> ZeroTime, ok |-> FALSE]
       ELSE CASE g.value.kind \in {"int", "int32", "int64"} ->
                    [t |-> TimeUnix(g.value.val), ok |-> TRUE]
              [] g.value.kind = "float64" ->
                    [t |-> TimeUnix(FloatToInt(g.value.val)), ok |-> TRUE]
              [] g.value.kind = "string" ->
                    IF ParseRFC3339(g.value.val).err
                    THEN [t |-> ZeroTime, ok |-> FALSE]
                    ELSE [t |-> ParseRFC3339(g.value.val).t, ok |-> TRUE]
              [] OTHER -> [t |-> ZeroTime, ok |-> FALSE]

\* SetTime: [c, ret]
SetTime(cl, key, t) ==
    [c |-> Set(cl, key, Int64Val(Unix(t))).c, ret |-> GetTime(cl, key).t]

----------------------------------------------------------------------------
(* Reserved claims *)

\* makeStrings as if it rendered a non-textual element instead of failing
makeStringsCoercing(auds) ==
    IF Len(auds) = 0 THEN [strs |-> <<>>, ok |-> FALSE]
    ELSE [strs |-> [i \in 1..Len(auds) |-> Sprint(auds[i])], ok |-> TRUE]

\* the helper makeStrings of Audience, applied to a sequence of values
makeStrings(auds) ==
    IF Len(auds) = 0 THEN [strs |-> <<>>, ok |-> FALSE]
    ELSE IF \E i \in 1..Len(auds) : auds[i].kind # "string"
    THEN [strs |-> <<>>, ok |-> FALSE]
    ELSE [strs |-> [i \in 1..Len(auds) |-> auds[i].val], ok |-> TRUE]

Audience(cl) ==
    LET g == Get(cl, "aud")
    IN IF ~g.ok THEN [strs |-> <<>>, ok |-> FALSE]
       ELSE CASE g.value.kind = "strings" -> [strs |-> g.value.val, ok |-> TRUE]
              [] g.value.kind = "string" -> [strs |-> <<g.value.val>>, ok |-> TRUE]
              [] g.value.kind = "slice" -> makeStrings(g.value.val)
              [] g.value.kind = "nil" -> [strs |-> <<>>, ok |-> FALSE]
              [] OTHER -> makeStrings(<<g.value>>)

\* SetAudience as if it stored the sequence whenever there is an argument
SetAudienceAlwaysSequence(cl, auds) ==
    [c |-> CASE Len(auds) = 0 -> Delete(cl, "aud").c
             [] OTHER -> Set(cl, "aud", StringsVal(auds)).c,
     ret |-> Audience(cl).strs]

\* SetAudience: [c, ret]
SetAudience(cl, auds) ==
    [c |-> CASE Len(auds) = 0 -> Delete(cl, "aud").c
             [] Len(auds) = 1 -> Set(cl, "aud", StrVal(auds[1])).c
             [] OTHER -> Set(cl, "aud", StringsVal(auds)).c,
     ret |-> Audience(cl).strs]

\* DeleteAudience: [c, ret]
DeleteAudience(cl) == [c |-> Delete(cl, "aud").c, ret |-> Audience(cl).strs]

Expiration(cl) == GetTime(cl, "exp")
SetExpiration(cl, t) == SetTime(cl, "exp", t)
DeleteExpiration(cl) == [c |-> Delete(cl, "exp").c, ret |-> Expiration(cl).t]

IssuedAt(cl) == GetTime(cl, "iat")
SetIssuedAt(cl, t) == SetTime(cl, "iat", t)
DeleteIssuedAt(cl) == [c |-> Delete(cl, "iat").c, ret |-> IssuedAt(cl).t]

Issuer(cl) == GetString(cl, "iss")
SetIssuer(cl, issuer) ==
    [c |-> Set(cl, "iss", StrVal(issuer)).c, ret |-> GetString(cl, "iss").str]
DeleteIssuer(cl) == [c |-> Delete(cl, "iss").c, ret |-> Issuer(cl).str]

Identifier(cl) == GetString(cl, "jti")
SetIdentifier(cl, id) ==
    [c |-> Set(cl, "jti", StrVal(id)).c, ret |-> GetString(cl, "jti").str]
DeleteIdentifier(cl) == [c |-> Delete(cl, "jti").c, ret |-> Identifier(cl).str]

NotBefore(cl) == GetTime(cl, "nbf")
SetNotBefore(cl, t) == SetTime(cl, "nbf", t)
DeleteNotBefore(cl) == [c |-> Delete(cl, "nbf").c, ret |-> NotBefore(cl).t]

Subject(cl) == GetString(cl, "sub")
SetSubject(cl, subject) ==
    [c |-> Set(cl, "sub", StrVal(subject)).c, ret |-> GetString(cl, "sub").str]
DeleteSubject(cl) == [c |-> Delete(cl, "sub").c, ret |-> Subject(cl).str]

----------------------------------------------------------------------------
(* JSON: encoding/json as MarshalJSON and UnmarshalJSON use it.           *)
(* Bytes are modelled by the JSON text's syntax tree: [j, v] with j one   *)
(* of "null", "string", "number", "bool", "array", "object". A number     *)
(* carries the rational <<num, den>> its digits denote.                   *)

\* a nil []byte
NoBytes == [j |-> "none", v |-> 0]
JNull == [j |-> "null", v |-> 0]
\* the literal {}
EmptyObject == [j |-> "object", v |-> <<>>]

RECURSIVE jsonMarshalValue(_)
\* json.Marshal of one stored value
jsonMarshalValue(value) ==
    CASE value.kind = "nil" -> JNull
      [] value.kind = "string" -> [j |-> "string", v |-> value.val]
      [] value.kind \in {"int", "int32", "int64"} ->
            [j |-> "number", v |-> <<value.val, 1>>]
      [] value.kind = "float64" -> [j |-> "number", v |-> value.val]
      [] value.kind = "bool" -> [j |-> "bool", v |-> value.val]
      [] value.kind = "strings" ->
            [j |-> "array",
             v |-> [i \in 1..Len(value.val) |->
                        [j |-> "string", v |-> value.val[i]]]]
      [] value.kind = "slice" ->
            [j |-> "array",
             v |-> [i \in 1..Len(value.val) |-> jsonMarshalValue(value.val[i])]]

\* json.Marshal(map[string]interface{}(c)): a nil map encodes as null
jsonMarshalMap(cl) ==
    IF cl.isNil THEN JNull
    ELSE [j |-> "object", v |-> [k \in DOMAIN cl.m |-> jsonMarshalValue(cl.m[k])]]

RECURSIVE jsonUnmarshalValue(_)
\* json.Unmarshal of one JSON value into an interface{}
jsonUnmarshalValue(b) ==
    CASE b.j = "null" -> NilVal
      [] b.j = "string" -> StrVal(b.v)
      [] b.j = "number" -> [kind |-> "float64", val |-> b.v]
      [] b.j = "bool" -> BoolVal(b.v)
      [] b.j = "array" ->
            SliceVal([i \in 1..Len(b.v) |-> jsonUnmarshalValue(b.v[i])])

\* the decoding as if a whole number were decoded as an int
jsonUnmarshalMapWholeAsInt(cl, b) ==
    [c |-> [isNil |-> FALSE,
            m |-> [k \in DOMAIN cl.m \cup DOMAIN b.v |->
                      IF k \in DOMAIN b.v
                      THEN IF b.v[k].j = "number" /\ b.v[k].v[2] = 1
                           THEN IntVal(b.v[k].v[1])
                           ELSE jsonUnmarshalValue(b.v[k])
                      ELSE cl.m[k]]],
     err |-> FALSE]

\* json.Unmarshal(b, &raw) for raw a map[string]interface{}: [c, err].
\* An object is merged into the map (allocated when nil), null sets the
\* map to nil, any other JSON value is a type error and leaves it alone.
jsonUnmarshalMap(cl, b) ==
    CASE b.j = "object" ->
            [c |-> [isNil |-> FALSE,
                    m |-> [k \in DOMAIN cl.m \cup DOMAIN b.v |->
                              IF k \in DOMAIN b.v THEN jsonUnmarshalValue(b.v[k])
                              ELSE cl.m[k]]],
             err |-> FALSE]
      [] b.j = "null" -> [c |-> NilClaims, err |-> FALSE]
      [] OTHER -> [c |-> cl, err |-> TRUE]

\* MarshalJSON as if it had no case of its own for the empty container
MarshalJSONUnguarded(cl) == [b |-> jsonMarshalMap(cl), err |-> FALSE]

\* MarshalJSON: [b, err]. The stored values of the model all encode.
MarshalJSON(cl) ==
    IF ClaimsLen(cl) = 0 THEN [b |-> EmptyObject, err |-> FALSE]
    ELSE [b |-> jsonMarshalMap(cl), err |-> FALSE]

\* UnmarshalJSON: [c, err]
UnmarshalJSON(cl, b) ==
    IF b = NoBytes THEN [c |-> cl, err |-> FALSE]
    ELSE IF jsonUnmarshalMap(cl, b).err THEN [c |-> cl, err |-> TRUE]
    ELSE [c |-> jsonUnmarshalMap(cl, b).c, err |-> FALSE]

----------------------------------------------------------------------------
(* Inputs *)

Reserved == {"aud", "exp", "iat", "iss", "jti", "nbf", "sub"}
Keys == Reserved \cup {"foo"}

\* the strings handed to the string setters and to SetAudience
Names == {<<"a">>, <<"b">>}

\* the times handed to the time setters: whole and fractional seconds,
\* after and before the epoch
Times ==
    {[zero |-> FALSE, sec |-> 7, nsec |-> 0],
     [zero |-> FALSE, sec |-> 7, nsec |-> 500000000],
     [zero |-> FALSE, sec |-> 0 - 2, nsec |-> 500000000]}

\* the argument lists of SetAudience: none, one, two and three audiences
AudLists ==
    {<<>>, <<<<"a">>>>, <<<<"a">>, <<"b">>>>, <<<<"b">>, <<"a">>, <<"b">>>>}

\* the keys and values handed to Set by the container specification
SetKeys == {"foo", "aud", "exp"}
SetValues == {StrVal(<<"a">>), IntVal(7), NilVal}

NoOp == [name |-> "none", key |-> "", arg |-> NilVal, ret |-> NilVal]

----------------------------------------------------------------------------
(* Operations on the container c. r is the operation's [c, ret].          *)

Step(name, key, arg, r) ==
    /\ ClaimsLen(r.c) <= MaxLen
    /\ c' = r.c
    /\ pre' = c
    /\ op' = [name |-> name, key |-> key, arg |-> arg, ret |-> r.ret]
    /\ UNCHANGED <<wire, d, restVars>>

DoSet(key, value) == Step("Set", key, value, Set(c, key, value))
DoDelete(key) == Step("Delete", key, NilVal, Delete(c, key))
DoSetTime(key, t) == Step("SetTime", key, t, SetTime(c, key, t))
DoSetAudience(auds) == Step("SetAudience", "aud", auds, SetAudience(c, auds))
DoDeleteAudience == Step("DeleteAudience", "aud", NilVal, DeleteAudience(c))
DoSetExpiration(t) == Step("SetExpiration", "exp", t, SetExpiration(c, t))
DoDeleteExpiration == Step("DeleteExpiration", "exp", NilVal, DeleteExpiration(c))
DoSetIssuedAt(t) == Step("SetIssuedAt", "iat", t, SetIssuedAt(c, t))
DoDeleteIssuedAt == Step("DeleteIssuedAt", "iat", NilVal, DeleteIssuedAt(c))
DoSetIssuer(str) == Step("SetIssuer", "iss", str, SetIssuer(c, str))
DoDeleteIssuer == Step("DeleteIssuer", "iss", NilVal, DeleteIssuer(c))
DoSetIdentifier(str) == Step("SetIdentifier", "jti", str, SetIdentifier(c, str))
DoDeleteIdentifier == Step("DeleteIdentifier", "jti", NilVal, DeleteIdentifier(c))
DoSetNotBefore(t) == Step("SetNotBefore", "nbf", t, SetNotBefore(c, t))
DoDeleteNotBefore == Step("DeleteNotBefore", "nbf", NilVal, DeleteNotBefore(c))
DoSetSubject(str) == Step("SetSubject", "sub", str, SetSubject(c, str))
DoDeleteSubject == Step("DeleteSubject", "sub", NilVal, DeleteSubject(c))

\* the reserved setters and deleters
ReservedNext ==
    \/ \E auds \in AudLists : DoSetAudience(auds)
    \/ DoDeleteAudience
    \/ \E t \in Times : DoSetExpiration(t)
    \/ DoDeleteExpiration
    \/ \E t \in Times : DoSetIssuedAt(t)
    \/ DoDeleteIssuedAt
    \/ \E str \in Names : DoSetIssuer(str)
    \/ DoDeleteIssuer
    \/ \E str \in Names : DoSetIdentifier(str)
    \/ DoDeleteIdentifier
    \/ \E t \in Times : DoSetNotBefore(t)
    \/ DoDeleteNotBefore
    \/ \E str \in Names : DoSetSubject(str)
    \/ DoDeleteSubject

\* dispatch is idle in the specifications of the container
RestIdle ==
    /\ handler = [id |-> <<>>, has |-> {}]
    /\ job = [method |-> "", domain |-> <<>>, resource |-> <<>>]
    /\ calls = <<>>
    /\ result = [done |-> FALSE, ok |-> FALSE, err |-> "nil", text |-> <<>>]

----------------------------------------------------------------------------
(* Spec: the container and its setters, from var claims Claims or from    *)
(* NewClaims().                                                            *)

Init ==
    /\ c \in {NilClaims, NewClaims}
    /\ pre = c
    /\ op = NoOp
    /\ wire = NoBytes
    /\ d = NilClaims
    /\ RestIdle

Next ==
    \/ \E key \in SetKeys, value \in SetValues : DoSet(key, value)
    \/ \E key \in Keys : DoDelete(key)
    \/ \E t \in Times : DoSetTime("foo", t)
    \/ ReservedNext

Spec == Init /\ [][Next]_vars

----------------------------------------------------------------------------
(* Claims checked under Spec *)

TimeSetters == {"SetTime", "SetExpiration", "SetIssuedAt", "SetNotBefore"}
TimeDeleters == {"DeleteExpiration", "DeleteIssuedAt", "DeleteNotBefore"}
TextSetters == {"SetIssuer", "SetIdentifier", "SetSubject"}
TextDeleters == {"DeleteIssuer", "DeleteIdentifier", "DeleteSubject"}
Setters == {"Set", "SetAudience"} \cup TimeSetters \cup TextSetters
Deleters == {"Delete", "DeleteAudience"} \cup TimeDeleters \cup TextDeleters
Writes == Setters \cup Deleters

\* the zero value of the result type of a write
ZeroReturn(name) ==
    CASE name \in {"Set", "Delete"} -> NilVal
      [] name \in TimeSetters \cup TimeDeleters -> ZeroTime
      [] OTHER -> <<>>

\* C1: a write on an uninitialized (nil) container leaves it uninitialized:
\* it returns the absent-marker or the zero value of its result type, Len()
\* is 0 afterwards, and Get and Contains report absent for every key, the
\* key just written included.
C1_NilStaysNil ==
    (pre.isNil /\ op.name \in Writes) =>
        /\ c = NilClaims
        /\ op.ret = ZeroReturn(op.name)
        /\ ClaimsLen(c) = 0
        /\ \A k \in Keys :
              /\ Get(c, k) = [value |-> NilVal, ok |-> FALSE]
              /\ ~Contains(c, k)

\* a setter has just been called on the nil container, with a value to store
C1_Witness ==
    /\ pre.isNil
    /\ op.name = "SetAudience"
    /\ Len(op.arg) = 2
    /\ c.isNil

\* C2: on an initialized container Set(k, v) and Delete(k) return the value
\* Get(k) reported just before (the absent-marker when k was absent); after
\* Set(k, v), Get(k) reports (v, found); after Delete(k), Contains(k) is
\* false and a second Delete(k) returns the absent-marker.
C2_SetDeleteReturnOld ==
    /\ (~pre.isNil /\ op.name = "Set") =>
          /\ op.ret = Get(pre, op.key).value
          /\ (~Contains(pre, op.key) => op.ret = NilVal)
          /\ Get(c, op.key) = [value |-> op.arg, ok |-> TRUE]
    /\ (~pre.isNil /\ op.name = "Delete") =>
          /\ op.ret = Get(pre, op.key).value
          /\ (~Contains(pre, op.key) => op.ret = NilVal)
          /\ ~Contains(c, op.key)
          /\ Delete(c, op.key).ret = NilVal

\* a present key holding a non-nil value has just been overwritten by Set
C2_Witness ==
    /\ ~pre.isNil
    /\ op.name = "Set"
    /\ Contains(pre, op.key)
    /\ op.ret = IntVal(7)
    /\ op.arg = StrVal(<<"a">>)

\* C4: SetAudience on an initialized container, whatever "aud" held before:
\* no argument leaves "aud" absent, one argument stores the bare string, two
\* or more store the sequence in argument order, and in the non-empty cases
\* Audience() then returns exactly the arguments.
C4_SetAudienceShape ==
    (~pre.isNil /\ op.name = "SetAudience") =>
        /\ (Len(op.arg) = 0 => ~Contains(c, "aud"))
        /\ (Len(op.arg) = 1 =>
               Get(c, "aud") = [value |-> StrVal(op.arg[1]), ok |-> TRUE])
        /\ (Len(op.arg) >= 2 =>
               Get(c, "aud") = [value |-> StringsVal(op.arg), ok |-> TRUE])
        /\ (Len(op.arg) >= 1 => Audience(c) = [strs |-> op.arg, ok |-> TRUE])

\* one audience has just replaced a stored sequence of audiences
C4_Witness ==
    /\ ~pre.isNil
    /\ op.name = "SetAudience"
    /\ Len(op.arg) = 1
    /\ Contains(pre, "aud")
    /\ Get(pre, "aud").value.kind = "strings"
    /\ Get(c, "aud").value.kind = "string"

\* the reading of t truncated to whole epoch seconds
C5_Truncated(t) == [zero |-> FALSE, sec |-> t.sec, nsec |-> 0]

\* the getter paired with a reserved time setter
C5_Getter(name, cl) ==
    CASE name = "SetExpiration" -> Expiration(cl)
      [] name = "SetIssuedAt" -> IssuedAt(cl)
      [] name = "SetNotBefore" -> NotBefore(cl)

\* C5: on an initialized container, after SetExpiration(t) Expiration()
\* reports found with t truncated to whole epoch seconds, and SetExpiration
\* returned the previous "exp" value as GetTime coerces it, the zero time
\* when there was none or it was not coercible; likewise for SetIssuedAt
\* and IssuedAt, SetNotBefore and NotBefore.
C5_TimeRoundTrip ==
    (~pre.isNil /\ op.name \in {"SetExpiration", "SetIssuedAt", "SetNotBefore"}) =>
        /\ C5_Getter(op.name, c) = [t |-> C5_Truncated(op.arg), ok |-> TRUE]
        /\ op.ret = IF GetTime(pre, op.key).ok THEN GetTime(pre, op.key).t
                    ELSE ZeroTime
        /\ (~Contains(pre, op.key) => op.ret = ZeroTime)
        /\ (Contains(pre, op.key)
              /\ Get(pre, op.key).value.kind \in {"nil", "string"}
              => op.ret = ZeroTime)

\* a time with a sub-second part has just replaced an earlier expiration
C5_Witness ==
    /\ ~pre.isNil
    /\ op.name = "SetExpiration"
    /\ op.arg.nsec > 0
    /\ op.ret = TimeUnix(0 - 2)
    /\ Expiration(c).t = TimeUnix(7)

\* the key a write is about
C10_Key(o) ==
    CASE o.name \in {"SetAudience", "DeleteAudience"} -> "aud"
      [] o.name \in {"SetExpiration", "DeleteExpiration"} -> "exp"
      [] o.name \in {"SetIssuedAt", "DeleteIssuedAt"} -> "iat"
      [] o.name \in {"SetIssuer", "DeleteIssuer"} -> "iss"
      [] o.name \in {"SetIdentifier", "DeleteIdentifier"} -> "jti"
      [] o.name \in {"SetNotBefore", "DeleteNotBefore"} -> "nbf"
      [] o.name \in {"SetSubject", "DeleteSubject"} -> "sub"
      [] OTHER -> o.key

\* whether a write removes its key: the deleters, and SetAudience() without
\* arguments
C10_Removes(o) ==
    o.name \in Deleters \/ (o.name = "SetAudience" /\ Len(o.arg) = 0)

\* C10: on an initialized container every write leaves Get(j) unchanged for
\* every key j other than the one it is about; Len() grows by one exactly
\* when a set adds an absent key, shrinks by one exactly when a delete
\* removes a present key, and is unchanged otherwise.
C10_Frame ==
    (~pre.isNil /\ op.name \in Writes) =>
        /\ \A j \in Keys \ {C10_Key(op)} : Get(c, j) = Get(pre, j)
        /\ ClaimsLen(c) =
              ClaimsLen(pre)
              + (IF ~C10_Removes(op) /\ ~Contains(pre, C10_Key(op)) THEN 1 ELSE 0)
              - (IF C10_Removes(op) /\ Contains(pre, C10_Key(op)) THEN 1 ELSE 0)

\* a delete has just removed one of two present keys
C10_Witness ==
    /\ ~pre.isNil
    /\ op.name = "DeleteIssuer"
    /\ Contains(pre, "iss")
    /\ Contains(pre, "foo")
    /\ ClaimsLen(pre) = 2
    /\ ClaimsLen(c) = 1
    /\ Contains(c, "foo")

----------------------------------------------------------------------------
(* SpecRead: the coercing readers applied to one stored value.  The value *)
(* is drawn from every kind a caller or the JSON decoder can store.       *)

\* the characters of the stored strings: digits, a sign, a letter
Chars == {"4", "2", "-", "a"}
StoredStrings == UNION {[1..n -> Chars] : n \in 0..MaxStrLen}
StoredInts == {0 - 3, 0, 7}
StoredFloats == {<<3, 2>>, <<0 - 3, 2>>, <<7, 1>>, <<0, 1>>}
\* the elements of a stored []interface{}
Elems == {StrVal(<<"a">>), StrVal(<<"b">>), IntVal(7)}

StoredValues ==
    {NilVal}
    \cup {StrVal(str) : str \in StoredStrings}
    \cup {IntVal(n) : n \in StoredInts}
    \cup {Int32Val(n) : n \in StoredInts}
    \cup {Int64Val(n) : n \in StoredInts}
    \cup {FloatVal(f[1], f[2]) : f \in StoredFloats}
    \cup {BoolVal(b) : b \in BOOLEAN}
    \cup {StringsVal(ss) : ss \in UNION {[1..n -> Names] : n \in 0..MaxAud}}
    \cup {SliceVal(vs) : vs \in UNION {[1..n -> Elems] : n \in 0..MaxAud}}

ReadKeys == {"aud", "n"}

\* a read: the container is left alone, op records what was returned
Read(name, key, r) ==
    /\ pre' = c
    /\ op' = [name |-> name, key |-> key, arg |-> NilVal, ret |-> r]
    /\ UNCHANGED <<c, wire, d, restVars>>

DoAudience == Read("Audience", "aud", Audience(c))
DoGetInt(key) == Read("GetInt", key, GetInt(c, key))

InitRead ==
    /\ c \in {NilClaims, NewClaims}
             \cup {Set(NewClaims, key, value).c :
                      key \in ReadKeys, value \in StoredValues}
    /\ pre = c
    /\ op = NoOp
    /\ wire = NoBytes
    /\ d = NilClaims
    /\ RestIdle

NextRead ==
    \/ DoAudience
    \/ \E key \in ReadKeys : DoGetInt(key)
    \/ \E key \in ReadKeys, t \in Times : DoSetTime(key, t)

SpecRead == InitRead /\ [][NextRead]_vars

\* whether every element of a stored sequence is textual
C3_AllTextual(vs) == \A i \in 1..Len(vs) : vs[i].kind = "string"

C3_NotFound == [strs |-> <<>>, ok |-> FALSE]

\* what the read rule makes of a stored value; emptyFound says whether an
\* empty sequence of untyped values counts as found
C3_Rule(value, emptyFound) ==
    CASE value.kind = "string" -> [strs |-> <<value.val>>, ok |-> TRUE]
      [] value.kind = "strings" -> [strs |-> value.val, ok |-> TRUE]
      [] value.kind = "slice" ->
            IF C3_AllTextual(value.val) /\ (emptyFound \/ Len(value.val) > 0)
            THEN [strs |-> [i \in 1..Len(value.val) |-> value.val[i].val],
                  ok |-> TRUE]
            ELSE C3_NotFound
      [] OTHER -> C3_NotFound

\* C3 as stated: Audience() makes a lone string a one-element sequence; a
\* stored sequence, of strings or of untyped values and of any length, zero
\* included, is found as the sequence of its strings exactly when every
\* element is textual; anything else is not found.
C3_AsStated ==
    (op.name = "Audience" /\ Contains(pre, "aud")) =>
        op.ret = C3_Rule(Get(pre, "aud").value, TRUE)

\* C3, amended: as stated, except that an empty sequence of untyped values
\* is not found (an empty sequence of strings is found, and empty).
C3_AudienceReadRule ==
    /\ (op.name = "Audience" /\ Contains(pre, "aud")) =>
          op.ret = C3_Rule(Get(pre, "aud").value, FALSE)
    /\ (op.name = "Audience" /\ ~Contains(pre, "aud")) => op.ret = C3_NotFound

\* Audience() has just read the mixed sequence ["a", 7]
C3_Witness ==
    /\ op.name = "Audience"
    /\ Get(pre, "aud") =
          [value |-> SliceVal(<<StrVal(<<"a">>), IntVal(7)>>), ok |-> TRUE]
    /\ op.ret = C3_NotFound

\* the integer a float64 <<num, den>> truncates to, toward zero
C6_TowardZero(f) ==
    CHOOSE n \in (0 - 10)..10 :
        IF f[1] >= 0 THEN n * f[2] <= f[1] /\ f[1] < (n + 1) * f[2]
        ELSE n * f[2] >= f[1] /\ f[1] > (n - 1) * f[2]

\* C6 as stated: GetInt(k) finds a value of any native integer type, the
\* int64 that SetTime stores included, finds a float truncated toward zero,
\* finds a string by its base-10 parse and not when it does not parse, and
\* finds neither another type nor an absent key.
C6_AsStated ==
    (op.name = "GetInt") =>
        LET g == Get(pre, op.key)
        IN CASE ~g.ok -> ~op.ret.ok
             [] g.value.kind \in {"int", "int32", "int64"} ->
                   op.ret = [i |-> g.value.val, ok |-> TRUE]
             [] g.value.kind = "float64" ->
                   op.ret = [i |-> C6_TowardZero(g.value.val), ok |-> TRUE]
             [] g.value.kind = "string" ->
                   IF ParseInt(g.value.val).err THEN ~op.ret.ok
                   ELSE op.ret = [i |-> ParseInt(g.value.val).i, ok |-> TRUE]
             [] OTHER -> ~op.ret.ok

----------------------------------------------------------------------------
(* SpecJSON: a container is built, encoded with MarshalJSON, and the      *)
(* bytes are decoded with UnmarshalJSON into a fresh container d.  The    *)
(* container is built before it is encoded and left alone afterwards.     *)

\* the JSON-native values handed to Set
JSONValues ==
    {StrVal(<<"a">>), IntVal(7), FloatVal(3, 2), BoolVal(TRUE),
     StringsVal(<<<<"a">>, <<"b">>>>)}
JSONKeys == {"foo", "aud", "exp", "iss"}

DoMarshalJSON ==
    /\ wire' = MarshalJSON(c).b
    /\ pre' = c
    /\ op' = [name |-> "MarshalJSON", key |-> "", arg |-> NilVal,
              ret |-> MarshalJSON(c)]
    /\ UNCHANGED <<c, d, restVars>>

\* fresh is the container decoded into: var d Claims, or NewClaims()
DoUnmarshalJSON(fresh) ==
    /\ d' = UnmarshalJSON(fresh, wire).c
    /\ pre' = c
    /\ op' = [name |-> "UnmarshalJSON", key |-> "", arg |-> wire,
              ret |-> UnmarshalJSON(fresh, wire).err]
    /\ UNCHANGED <<c, wire, restVars>>

BuildNext ==
    \/ \E key \in {"foo", "aud"}, value \in JSONValues : DoSet(key, value)
    \/ \E key \in JSONKeys : DoDelete(key)
    \/ \E auds \in AudLists : DoSetAudience(auds)
    \/ \E t \in Times : DoSetExpiration(t)
    \/ \E str \in Names : DoSetIssuer(str)

NextJSON ==
    \/ wire = NoBytes /\ BuildNext
    \/ DoMarshalJSON
    \/ \E fresh \in {NilClaims, NewClaims} : DoUnmarshalJSON(fresh)

SpecJSON == Init /\ [][NextJSON]_vars

\* C7 as stated: after encoding a container of JSON-native values and
\* decoding the bytes into a fresh container, Contains(k) is the same and
\* Get(k) returns a value equal to the original, for every original key k.
C7_AsStated ==
    (op.name = "UnmarshalJSON" /\ wire # NoBytes) =>
        \A k \in Keys :
            /\ Contains(d, k) = Contains(c, k)
            /\ Get(d, k) = Get(c, k)

\* the value the decoder returns for an original value: an integer comes
\* back as the float64 of the same number, a sequence of strings as a
\* sequence of untyped values holding the same strings in the same order
C7_Decoded(value) ==
    CASE value.kind \in {"int", "int32", "int64"} ->
            [kind |-> "float64", val |-> <<value.val, 1>>]
      [] value.kind = "strings" ->
            SliceVal([i \in 1..Len(value.val) |-> StrVal(value.val[i])])
      [] OTHER -> value

\* C7, amended: after the round trip Contains(k) is the same for every key
\* k, and Get(k) returns the original value when it is a string, a float
\* or a boolean, the float64 of the same number when it is an integer, and
\* the untyped sequence of the same strings when it is a sequence of strings.
C7_RoundTrip ==
    (op.name = "UnmarshalJSON" /\ wire # NoBytes) =>
        /\ ~op.ret
        /\ \A k \in Keys :
              /\ Contains(d, k) = Contains(c, k)
              /\ Contains(c, k) => Get(d, k).value = C7_Decoded(Get(c, k).value)

\* a container holding a string and the int64 of SetExpiration has made the
\* round trip into an uninitialized container
C7_Witness ==
    /\ op.name = "UnmarshalJSON"
    /\ wire # NoBytes
    /\ Get(c, "foo") = [value |-> StrVal(<<"a">>), ok |-> TRUE]
    /\ Get(c, "exp") = [value |-> Int64Val(7), ok |-> TRUE]
    /\ Get(d, "foo") = Get(c, "foo")
    /\ Get(d, "exp").value.kind = "float64"

\* C8: MarshalJSON returns the literal {} and no error, never null, for
\* every container with Len() = 0: uninitialized, freshly constructed, or
\* emptied again by deleting its keys.
C8_EmptyEncodesAsObject ==
    (op.name = "MarshalJSON" /\ ClaimsLen(pre) = 0) =>
        /\ op.ret = [b |-> EmptyObject, err |-> FALSE]
        /\ wire = EmptyObject
        /\ wire # JNull

\* the uninitialized container has just been encoded
C8_Witness ==
    /\ op.name = "MarshalJSON"
    /\ pre.isNil
    /\ wire = EmptyObject

----------------------------------------------------------------------------
(* SpecDispatch: handleJob of the rest package.  A handler is its ID and  *)
(* the set of verb methods its type has; a type assertion                 *)
(* handler.(XResourceHandler) succeeds exactly when the method is in the  *)
(* set.  A handler method returns any (bool, error).                      *)

Methods ==
    {"Get", "Read", "Head", "Put", "Update", "Post", "Create", "Patch",
     "Modify", "Delete", "Options", "Info"}

\* the request methods: the seven of the switch and two it does not know
Verbs ==
    {"GET", "HEAD", "PUT", "POST", "PATCH", "DELETE", "OPTIONS", "TRACE",
     "CONNECT"}

\* what a handler method may return
HandlerReturns == [ok : BOOLEAN, err : {"nil", "HandlerError"}]

NoResult == [done |-> FALSE, ok |-> FALSE, err |-> "nil", text |-> <<>>]

\* the closure id of handleJob: "%s@%s/%s" of the ID, domain and resource
id == handler.id \o <<"@">> \o job.domain \o <<"/">> \o job.resource

\* return grh.Get(job) and the like: the method runs and its result is
\* handleJob's
Invoke(method) ==
    \E r \in HandlerReturns :
        /\ calls' = Append(calls, method)
        /\ result' = [done |-> TRUE, ok |-> r.ok, err |-> r.err, text |-> <<>>]

\* return false, errors.New(code, errorMessages, text)
Fail(code, text) ==
    /\ calls' = calls
    /\ result' = [done |-> TRUE, ok |-> FALSE, err |-> code, text |-> text]

\* a job is dispatched once
Pending == ~result.done

\* the GET case as if the alias were probed first
HandleGetAliasFirst ==
    /\ Pending /\ job.method = "GET"
    /\ IF "Read" \in handler.has THEN Invoke("Read")
       ELSE IF "Get" \in handler.has THEN Invoke("Get")
       ELSE Fail("ErrNoGetHandler", id)
    /\ UNCHANGED <<claimVars, handler, job>>

HandleGet ==
    /\ Pending /\ job.method = "GET"
    /\ IF "Get" \in handler.has THEN Invoke("Get")
       ELSE IF "Read" \in handler.has THEN Invoke("Read")
       ELSE Fail("ErrNoGetHandler", id)
    /\ UNCHANGED <<claimVars, handler, job>>

HandleHead ==
    /\ Pending /\ job.method = "HEAD"
    /\ IF "Head" \in handler.has THEN Invoke("Head")
       ELSE Fail("ErrNoHeadHandler", id)
    /\ UNCHANGED <<claimVars, handler, job>>

HandlePut ==
    /\ Pending /\ job.method = "PUT"
    /\ IF "Put" \in handler.has THEN Invoke("Put")
       ELSE IF "Update" \in handler.has THEN Invoke("Update")
       ELSE Fail("ErrNoPutHandler", id)
    /\ UNCHANGED <<claimVars, handler, job>>

HandlePost ==
    /\ Pending /\ job.method = "POST"
    /\ IF "Post" \in handler.has THEN Invoke("Post")
       ELSE IF "Create" \in handler.has THEN Invoke("Create")
       ELSE Fail("ErrNoPostHandler", id)
    /\ UNCHANGED <<claimVars, handler, job>>

HandlePatch ==
    /\ Pending /\ job.method = "PATCH"
    /\ IF "Patch" \in handler.has THEN Invoke("Patch")
       ELSE IF "Modify" \in handler.has THEN Invoke("Modify")
       ELSE Fail("ErrNoPatchHandler", id)
    /\ UNCHANGED <<claimVars, handler, job>>

HandleDelete ==
    /\ Pending /\ job.method = "DELETE"
    /\ IF "Delete" \in handler.has THEN Invoke("Delete")
       ELSE Fail("ErrNoDeleteHandler", id)
    /\ UNCHANGED <<claimVars, handler, job>>

HandleOptions ==
    /\ Pending /\ job.method = "OPTIONS"
    /\ IF "Options" \in handler.has THEN Invoke("Options")
       ELSE IF "Info" \in handler.has THEN Invoke("Info")
       ELSE Fail("ErrNoOptionsHandler", id)
    /\ UNCHANGED <<claimVars, handler, job>>

\* no case of the switch matches
HandleOther ==
    /\ Pending
    /\ job.method \notin
          {"GET", "HEAD", "PUT", "POST", "PATCH", "DELETE", "OPTIONS"}
    /\ Fail("ErrMethodNotSupported", <<job.method>>)
    /\ UNCHANGED <<claimVars, handler, job>>

handleJob ==
    \/ HandleGet
    \/ HandleHead
    \/ HandlePut
    \/ HandlePost
    \/ HandlePatch
    \/ HandleDelete
    \/ HandleOptions
    \/ HandleOther

InitDispatch ==
    /\ c = NilClaims
    /\ pre = NilClaims
    /\ op = NoOp
    /\ wire = NoBytes
    /\ d = NilClaims
    /\ handler \in [id : {<<"h", "1">>}, has : SUBSET Methods]
    /\ job \in [method : Verbs, domain : {<<"d">>}, resource : {<<"r">>}]
    /\ calls = <<>>
    /\ result = NoResult

SpecDispatch == InitDispatch /\ [][handleJob]_vars

\* a verb's native method, its alias ("" when it has none) and the error
\* returned when the handler has neither
C9_Probe(verb) ==
    CASE verb = "GET" -> <<"Get", "Read", "ErrNoGetHandler">>
      [] verb = "HEAD" -> <<"Head", "", "ErrNoHeadHandler">>
      [] verb = "PUT" -> <<"Put", "Update", "ErrNoPutHandler">>
      [] verb = "POST" -> <<"Post", "Create", "ErrNoPostHandler">>
      [] verb = "PATCH" -> <<"Patch", "Modify", "ErrNoPatchHandler">>
      [] verb = "DELETE" -> <<"Delete", "", "ErrNoDeleteHandler">>
      [] verb = "OPTIONS" -> <<"Options", "Info", "ErrNoOptionsHandler">>

C9_Known == {"GET", "HEAD", "PUT", "POST", "PATCH", "DELETE", "OPTIONS"}

\* C9: handleJob invokes at most one handler method; for a verb of the
\* switch it invokes the native method whenever the handler has it, the
\* alias only when the native method is missing, and when both are missing
\* returns false with the verb's no-handler error carrying
\* handlerID@domain/resource; any other verb returns the
\* method-not-supported error without invoking the handler.
C9_DispatchOrder ==
    /\ Len(calls) <= 1
    /\ ~result.done => calls = <<>>
    /\ (result.done /\ job.method \in C9_Known) =>
          LET native == C9_Probe(job.method)[1]
              alias == C9_Probe(job.method)[2]
              code == C9_Probe(job.method)[3]
          IN IF native \in handler.has THEN calls = <<native>>
             ELSE IF alias \in handler.has THEN calls = <<alias>>
             ELSE /\ calls = <<>>
                  /\ result =
                        [done |-> TRUE, ok |-> FALSE, err |-> code,
                         text |-> <<"h", "1", "@", "d", "/", "r">>]
    /\ (result.done /\ job.method \notin C9_Known) =>
          /\ calls = <<>>
          /\ ~result.ok
          /\ result.err = "ErrMethodNotSupported"

\* a GET has been dispatched to a handler with both Get and Read
C9_Witness ==
    /\ result.done
    /\ job.method = "GET"
    /\ {"Get", "Read"} \subseteq handler.has
    /\ calls = <<"Get">>

====
